---------------------------- MODULE Spec2Model ----------------------------
(***************************************************************************)
(* The useSSE hook of yeti-telemetry (hooks/useSSE): one subscription that *)
(* merges a one-shot snapshot fetch with a live EventSource stream into a  *)
(* bounded buffer, with a pause gate and a connection-state signal.        *)
(*                                                                         *)
(* One step of the model is one task on the UI thread: an EventSource      *)
(* callback, the completion of the snapshot fetch, a user action, or a     *)
(* change of the hook's props followed by the effects React then runs.     *)
(***************************************************************************)
EXTENDS Integers, Sequences, FiniteSets

\* ------------------------------------------------------------------ bounds
\* Largest maxItems a subscription is created with.
MaxCap == 2
\* Largest number of records one snapshot response carries (limit=500 scaled).
MaxSnapshot == 2
\* Live updates accepted since the buffer was last reset (bounds the history).
MaxLive == 3
\* Number of values the `table` prop takes during one mount of the hook.
MaxTables == 2
\* ------------------------------------------------------------------ values
\* Record ids the backend hands out, larger = newer. The hook never looks into
\* a record: two ids are enough to tell every order and every duplicate apart.
Records == {1, 2}
NoRecord == 0

Null == "null"
LostMessage == "SSE connection lost, reconnecting..."

\* event.data of an `update` event: a record, text that is no JSON, or JSON
\* that parses to a falsy value (null, 0, false, "").
UpdateData == {"record", "malformed", "falsy"}
\* event.data of a `message` event.
MessageData == {"connected", "other", "malformed"}

Min(a, b) == IF a < b THEN a ELSE b

RECURSIVE Reverse(_)
Reverse(s) == IF s = <<>> THEN <<>> ELSE Append(Reverse(Tail(s)), Head(s))

\* The last n elements of s (all of s when it is shorter).
LastN(s, n) == IF Len(s) <= n THEN s ELSE SubSeq(s, Len(s) - n + 1, Len(s))
FirstN(s, n) == IF Len(s) <= n THEN s ELSE SubSeq(s, 1, n)

Range(s) == {s[i] : i \in 1..Len(s)}

\* What GET /{table}?limit=500&sort=-id answers with when it answers with an
\* array: distinct persisted records, newest (largest id) first.
SnapshotArrays ==
    {s \in UNION {[1..n -> Records] : n \in 0..MaxSnapshot} :
        \A i \in 1..(Len(s) - 1) : s[i] > s[i + 1]}

\* How the fetch promise chain ends: the array above, a network failure, a
\* body res.json() rejects, or JSON that is no array (an object). ok is
\* res.ok, the response's status being 2xx; a network failure has no response.
FetchKinds == {"array", "network", "undecodable", "object"}
FetchResults ==
    {[kind |-> "array", recs |-> s, ok |-> b] :
        s \in SnapshotArrays, b \in BOOLEAN}
        \cup {[kind |-> k, recs |-> <<>>, ok |-> b] :
                k \in {"undecodable", "object"}, b \in BOOLEAN}
        \cup {[kind |-> "network", recs |-> <<>>, ok |-> FALSE]}

VARIABLES
    maxItems,     \* the maxItems option of this subscription
    items,        \* useState items: the buffer
    connected,    \* useState connected
    error,        \* useState error: Null or a message
    paused,       \* pausedRef.current (= the paused prop of the last render)
    mounted,      \* the component that called the hook is mounted
    table,        \* index of the value the table prop now has (1 at mount)
    openSources,  \* table indexes whose EventSource has not been closed
    fetching,     \* table indexes whose snapshot fetch is still in flight
    base,         \* history: the snapshot array last applied (<<>> after clear)
    accepted,     \* history: live records accepted since base was set
    lastEv        \* history: the task that produced this state

\* The App component and the metric views of MetricsPanel.
VARIABLES
    appPaused,    \* App: useState paused, handed to all three panels
    panelItems,   \* the buffer of each panel's subscription
    pausedBy,     \* history: the panel whose pause button was pressed last
    appEv,        \* history: the task of the App that produced this state
    mItems,       \* MetricsPanel: the buffer of the Metric subscription
    derived,      \* MetricsPanel: what the last render computed from mItems
    extensionIds, \* MetricsPanel: useState extensionIds
    apps,         \* MetricsPanel: the per-app views of the last render
    selected,          \* App: useState selected (the nav id shown)
    selectedConnector, \* App: useState selectedConnector, or NoConnector
    connectors,        \* App: useState connectors
    panelLive,         \* per panel: it is mounted and its subscription is live
    panelConnected,    \* per panel: the connected flag of its subscription
    logItems,      \* LogsPanel: the buffer of the Log subscription
    enabledLevels, \* LogsPanel: useState enabledLevels
    logSearch,     \* LogsPanel: useState search
    logFiltered,   \* LogsPanel: `filtered` of the last render
    spanItems,     \* SpansPanel: the buffer of the Span subscription
    spanSearch,    \* SpansPanel: useState search
    spanFiltered   \* SpansPanel: `filtered` of the last render

hookVars == <<maxItems, items, connected, error, paused, mounted, table,
              openSources, fetching, base, accepted, lastEv>>
appVars == <<appPaused, panelItems, pausedBy, appEv>>
metricVars == <<mItems, derived, extensionIds, apps>>

navVars == <<selected, selectedConnector, connectors, panelLive, panelConnected>>
filterVars == <<logItems, enabledLevels, logSearch, logFiltered,
                spanItems, spanSearch, spanFiltered>>

\* What the hook's own actions leave alone.
otherVars == <<appVars, metricVars, navVars, filterVars>>

vars == <<hookVars, appVars, metricVars, navVars, filterVars>>

\* The tables the three panels subscribe to.
Panels == {"Log", "Span", "Metric"}
NoPanel == "none"

\* The App before any task of it has run.
AppStart ==
    /\ appPaused = FALSE
    /\ panelItems = [p \in Panels |-> <<>>]
    /\ pausedBy = NoPanel
    /\ appEv = [kind |-> "mount", panel |-> NoPanel, rec |-> NoRecord]

NoConnector == ""

\* The App's navigation state at mount when the location names nav id nav,
\* with the three panels mounted.
NavStart(nav) ==
    /\ selected = nav
    /\ selectedConnector = NoConnector
    /\ connectors = <<>>
    /\ panelLive = [p \in Panels |-> TRUE]
    /\ panelConnected = [p \in Panels |-> FALSE]

LOG_LEVELS == <<"TRACE", "DEBUG", "INFO", "WARN", "ERROR">>

\* LogsPanel and SpansPanel rendered over empty buffers.
FiltersStart ==
    /\ logItems = <<>>
    /\ enabledLevels = {LOG_LEVELS[i] : i \in 1..Len(LOG_LEVELS)}
    /\ logSearch = <<>>
    /\ logFiltered = <<>>
    /\ spanItems = <<>>
    /\ spanSearch = <<>>
    /\ spanFiltered = <<>>

\* The parts of the program a specification does not observe.
RestStart == NavStart("logs") /\ FiltersStart

\* MetricsPanel rendered over an empty buffer.
MetricsStart ==
    /\ mItems = <<>>
    /\ derived = [metrics |-> <<>>, system |-> <<>>, other |-> <<>>, app |-> <<>>]
    /\ extensionIds = {}
    /\ apps = [appStats |-> <<>>, allApps |-> <<>>, extensions |-> <<>>,
               applications |-> <<>>]

\* What lastEv records of a task: its kind, the table index of the EventSource
\* or fetch it belongs to, its payload, and what it found: the buffer length
\* (snapshot completions) or the connection flags (connection events).
NoPre == [len |-> 0, connected |-> FALSE, error |-> Null]
PreLen(n) == [len |-> n, connected |-> FALSE, error |-> Null]
PreConn(c, e) == [len |-> 0, connected |-> c, error |-> e]
Ev(kind, k, data, rec, recs, pre) ==
    [kind |-> kind, table |-> k, data |-> data, rec |-> rec, recs |-> recs,
     pre |-> pre, ok |-> TRUE]
\* A snapshot completion also records the status of the response.
EvFetch(k, res, pre) ==
    [kind |-> "snapshot", table |-> k, data |-> res.kind, rec |-> NoRecord,
     recs |-> res.recs, pre |-> pre, ok |-> res.ok]

\* ---------------------------------------------------------- the hook's code

\* setItems(prev => { next = [...prev, parsed];
\*                    return next.length > maxItems ? next.slice(-maxItems) : next })
PushDropNewest(prev, parsed, max) == FirstN(Append(prev, parsed), max)
PushDedup(prev, parsed, max) ==
    IF parsed \in Range(prev) THEN prev
    ELSE LET next == Append(prev, parsed)
         IN  IF Len(next) > max THEN LastN(next, max) ELSE next
PushNewestFirst(prev, parsed, max) ==
    LET next == <<parsed>> \o prev
    IN  IF Len(next) > max THEN FirstN(next, max) ELSE next
Push(prev, parsed, max) ==
    LET next == Append(prev, parsed)
    IN  IF Len(next) > max THEN LastN(next, max) ELSE next

\* if (pausedRef.current) return
GateIgnored(p) == FALSE
GateInverted(p) == ~p
Gate(p) == p

\* parse ? parse(event.data) : JSON.parse(event.data); NoRecord stands for a
\* throw (caught) and for a falsy value (skipped by `if (parsed)`).
ParseUpdateKeepsFalsy(data, rec) ==
    IF data = "record" THEN rec ELSE IF data = "falsy" THEN -1 ELSE NoRecord
ParseUpdate(data, rec) == IF data = "record" THEN rec ELSE NoRecord

\* .then(records => { if (records.length > 0) setItems(records) })
SnapshotMerged(prev, res) ==
    IF res.kind = "array" /\ Len(res.recs) > 0 THEN prev \o res.recs ELSE prev
SnapshotItems(prev, res) ==
    IF res.kind = "array" /\ Len(res.recs) > 0 THEN res.recs ELSE prev

\* es.onopen: setConnected(true); setError(null)
OpenKeepsError(c, e) == <<TRUE, e>>
OpenState(c, e) == <<TRUE, Null>>

\* 'message' listener: data.type === 'connected' -> setConnected(true)
MessageIgnored(c, e, data) == <<c, e>>
MessageState(c, e, data) == IF data = "connected" THEN <<TRUE, e>> ELSE <<c, e>>

\* es.onerror: setConnected(false); setError('SSE connection lost, ...')
ErrorState(c, e) == <<FALSE, LostMessage>>

\* effect cleanup: es.close(); eventSourceRef.current = null
CleanupLeavesOpen(sources, k) == sources
Cleanup(sources, k) == sources \ {k}

\* clear(): setItems([])
ClearKeepsNewest(prev) == LastN(prev, 1)
ClearItems(prev) == <<>>

\* The promise of a fetch settles once: the fetch leaves the pending ones.
FetchRestarted(pending, k) == pending
FetchSettled(pending, k) == pending \ {k}

\* A state setter of an unmounted component changes nothing.
SetState(old, new) == IF mounted THEN new ELSE old

Init ==
    /\ maxItems \in 1..MaxCap
    /\ items = <<>>
    /\ connected = FALSE
    /\ error = Null
    /\ paused = FALSE
    /\ mounted = TRUE
    /\ table = 1
    /\ openSources = {1}
    /\ fetching = {1}
    /\ base = <<>>
    /\ accepted = <<>>
    /\ lastEv = Ev("mount", 1, "", NoRecord, <<>>, NoPre)
    /\ AppStart
    /\ MetricsStart
    /\ RestStart

\* An onopen that, like the update listener, returns while paused.
OnOpenGated(k) ==
    /\ k \in openSources
    /\ connected' = SetState(connected,
                        IF Gate(paused) THEN connected
                        ELSE OpenState(connected, error)[1])
    /\ error' = SetState(error,
                    IF Gate(paused) THEN error ELSE OpenState(connected, error)[2])
    /\ lastEv' = Ev("open", k, "", NoRecord, <<>>,
                 PreConn(connected, error))
    /\ UNCHANGED <<otherVars, maxItems, items, paused, mounted, table, openSources,
                   fetching, base, accepted>>

\* es.onopen of the EventSource created for table index k.
OnOpen(k) ==
    /\ k \in openSources
    /\ connected' = SetState(connected, OpenState(connected, error)[1])
    /\ error' = SetState(error, OpenState(connected, error)[2])
    /\ lastEv' = Ev("open", k, "", NoRecord, <<>>,
                 PreConn(connected, error))
    /\ UNCHANGED <<otherVars, maxItems, items, paused, mounted, table, openSources,
                   fetching, base, accepted>>

\* The 'message' listener.
OnMessage(k, data) ==
    /\ k \in openSources
    /\ connected' = SetState(connected, MessageState(connected, error, data)[1])
    /\ error' = SetState(error, MessageState(connected, error, data)[2])
    /\ lastEv' = Ev("message", k, data, NoRecord, <<>>,
                 PreConn(connected, error))
    /\ UNCHANGED <<otherVars, maxItems, items, paused, mounted, table, openSources,
                   fetching, base, accepted>>

\* The 'update' listener.
OnUpdate(k, data, rec) ==
    LET parsed == ParseUpdate(data, rec)
        taken == ~Gate(paused) /\ parsed # NoRecord
    IN  /\ k \in openSources
        /\ (data = "record") = (rec # NoRecord)
        /\ taken /\ mounted => Len(accepted) < MaxLive
        /\ items' = IF taken THEN SetState(items, Push(items, parsed, maxItems))
                    ELSE items
        /\ accepted' = IF data = "record" /\ ~paused /\ mounted
                       THEN Append(accepted, rec) ELSE accepted
        /\ lastEv' = Ev("update", k, data, rec, <<>>, NoPre)
        /\ UNCHANGED <<otherVars, maxItems, connected, error, paused, mounted, table,
                       openSources, fetching, base>>

\* es.onerror.
OnErrorClears(k) ==
    /\ k \in openSources
    /\ connected' = SetState(connected, ErrorState(connected, error)[1])
    /\ error' = SetState(error, ErrorState(connected, error)[2])
    /\ items' = SetState(items, <<>>)
    /\ lastEv' = Ev("error", k, "", NoRecord, <<>>,
                 PreConn(connected, error))
    /\ UNCHANGED <<otherVars, maxItems, paused, mounted, table, openSources,
                   fetching, base, accepted>>
OnError(k) ==
    /\ k \in openSources
    /\ connected' = SetState(connected, ErrorState(connected, error)[1])
    /\ error' = SetState(error, ErrorState(connected, error)[2])
    /\ lastEv' = Ev("error", k, "", NoRecord, <<>>,
                 PreConn(connected, error))
    /\ UNCHANGED <<otherVars, maxItems, items, paused, mounted, table, openSources,
                   fetching, base, accepted>>

\* The snapshot fetch started for table index k settles with res.
FetchDone(k, res) ==
    LET applied == res.kind = "array" /\ Len(res.recs) > 0 /\ mounted
    IN  /\ k \in fetching
        /\ fetching' = FetchSettled(fetching, k)
        /\ items' = SetState(items, SnapshotItems(items, res))
        /\ base' = IF applied THEN res.recs ELSE base
        /\ accepted' = IF applied THEN <<>> ELSE accepted
        /\ lastEv' = EvFetch(k, res, PreLen(Len(items)))
        /\ UNCHANGED <<otherVars, maxItems, connected, error, paused, mounted, table,
                       openSources>>

\* clear(): setItems([])
Clear ==
    /\ mounted
    /\ items' = ClearItems(items)
    /\ base' = <<>>
    /\ accepted' = <<>>
    /\ lastEv' = Ev("clear", table, "", NoRecord, <<>>, PreLen(Len(items)))
    /\ UNCHANGED <<otherVars, maxItems, connected, error, paused, mounted, table,
                   openSources, fetching>>

\* History: the record of the update the gate dropped in the task before this
\* one, if there was one.
DroppedJustBefore ==
    IF lastEv.kind = "update" /\ lastEv.data = "record" /\ paused
    THEN lastEv.rec ELSE NoRecord

\* The paused prop flips and the hook re-renders: pausedRef.current = paused.
TogglePause ==
    /\ mounted
    /\ paused' = ~paused
    /\ lastEv' = Ev("toggle", table, "", DroppedJustBefore, <<>>, NoPre)
    /\ UNCHANGED <<otherVars, maxItems, items, connected, error, mounted, table,
                   openSources, fetching, base, accepted>>

\* The table prop changes: both effects are torn down and run again. The state
\* of the hook (items, connected, error) is kept, the old fetch is not aborted.
ChangeTable ==
    /\ mounted
    /\ table < MaxTables
    /\ table' = table + 1
    /\ openSources' = Cleanup(openSources, table) \cup {table + 1}
    /\ fetching' = fetching \cup {table + 1}
    /\ lastEv' = Ev("changeTable", table, "", NoRecord, <<>>, NoPre)
    /\ UNCHANGED <<otherVars, maxItems, items, connected, error, paused, mounted, base,
                   accepted>>

\* The component unmounts: the effect cleanup runs, the fetch is not aborted.
Unmount ==
    /\ mounted
    /\ mounted' = FALSE
    /\ openSources' = Cleanup(openSources, table)
    /\ lastEv' = Ev("unmount", table, "", NoRecord, <<>>, NoPre)
    /\ UNCHANGED <<otherVars, maxItems, items, connected, error, paused, table, fetching,
                   base, accepted>>

Next ==
    \/ \E k \in 1..MaxTables : OnOpen(k)
    \/ \E k \in 1..MaxTables, data \in MessageData : OnMessage(k, data)
    \/ \E k \in 1..MaxTables, data \in UpdateData, rec \in Records \cup {NoRecord} :
          OnUpdate(k, data, rec)
    \/ \E k \in 1..MaxTables : OnError(k)
    \/ \E k \in 1..MaxTables, res \in FetchResults : FetchDone(k, res)
    \/ Clear
    \/ TogglePause
    \/ ChangeTable
    \/ Unmount

Spec == Init /\ [][Next]_vars

\* Table indexes whose subscription has been released.
Released == (1..(table - 1)) \cup (IF mounted THEN {} ELSE {table})

SseKinds == {"open", "message", "update", "error"}

IsPrefix(a, b) == Len(a) <= Len(b) /\ SubSeq(b, 1, Len(a)) = a
Count(s, r) == Cardinality({i \in 1..Len(s) : s[i] = r})

\* ------------------------------------------------------------------ claims

\* C1: the buffer never holds more than maxItems records, whatever the
\* interleaving of snapshot completion, live updates, pause toggles and clear.
C1_BufferWithinCapacity == Len(items) <= maxItems

\* C2: starting from an empty buffer (no snapshot applied since the last
\* reset), after n accepted live updates the buffer has length min(n, maxItems)
\* and is exactly the last min(n, maxItems) accepted records in arrival order.
C2_LastAcceptedKept ==
    base = <<>> =>
        /\ Len(items) = Min(Len(accepted), maxItems)
        /\ items = LastN(accepted, maxItems)

C2_Witness ==
    /\ base = <<>>
    /\ lastEv.kind = "update"
    /\ Len(accepted) > maxItems
    /\ maxItems > 1
    /\ accepted[1] # accepted[Len(accepted)]
    /\ items = LastN(accepted, maxItems)

\* C3: an update event delivered while the gate is engaged leaves the buffer
\* as it was, and toggling the gate replays nothing; with the gate disengaged
\* a valid update is appended at the end, after records that were already
\* buffered.
C3_PauseGate ==
    [][/\ (lastEv'.kind = "update" /\ paused) => items' = items
       /\ lastEv'.kind = "toggle" => items' = items
       /\ (lastEv'.kind = "update" /\ ~paused /\ lastEv'.data = "record"
             /\ mounted) =>
              /\ items' # <<>>
              /\ items'[Len(items')] = lastEv'.rec
              /\ SubSeq(items', 1, Len(items') - 1)
                    = LastN(items, Len(items') - 1)]_vars

C3_Witness ==
    /\ lastEv.kind = "update"
    /\ lastEv.data = "record"
    /\ paused
    /\ items # <<>>
    /\ lastEv.rec \notin Range(items)

\* C4: a snapshot completion with a non-empty array makes the buffer exactly
\* the snapshot's records (no record buffered before survives beside them);
\* with an empty array the buffer is unchanged.
C4_SnapshotReplaces ==
    [][(lastEv'.kind = "snapshot" /\ lastEv'.data = "array" /\ mounted) =>
          IF lastEv'.recs # <<>>
          THEN /\ Len(items') = Len(lastEv'.recs)
               /\ Range(items') = Range(lastEv'.recs)
          ELSE items' = items]_vars

C4_Witness ==
    /\ lastEv.kind = "snapshot"
    /\ lastEv.data = "array"
    /\ lastEv.recs # <<>>
    /\ lastEv.pre.len > Len(lastEv.recs)
    /\ mounted
    /\ Len(items) = Len(lastEv.recs)

\* C5: an applied snapshot (delivered newest first) sits in the buffer
\* reversed: oldest record at the head, newest at the tail.
C5_SnapshotOldestFirst ==
    (lastEv.kind = "snapshot" /\ lastEv.data = "array" /\ lastEv.recs # <<>>
        /\ mounted)
    => items = Reverse(lastEv.recs)

\* C6: the result of a snapshot fetch whose subscription was released before
\* it arrived changes no buffer.
C6_ReleasedFetchIgnored ==
    [][(lastEv'.kind = "snapshot" /\ lastEv'.table \in Released) =>
          items' = items]_vars

\* C7: after release, no open, message, update or error event of the released
\* connection changes the buffer or the connection state.
C7_ReleasedConnectionSilent ==
    [][(lastEv'.kind \in SseKinds /\ lastEv'.table \in Released) =>
          UNCHANGED <<items, connected, error>>]_vars

C7_Witness ==
    /\ lastEv.kind \in {"changeTable", "unmount"}
    /\ lastEv.table \in Released
    /\ lastEv.table \notin openSources
    /\ connected
    /\ items # <<>>

\* C8: connected starts false with no error; an open event or a confirmation
\* message sets connected from any state; a transport error clears connected
\* and sets the error message from any state.
C8_ConnectionTransitions ==
    /\ connected = FALSE /\ error = Null
    /\ [][/\ (lastEv'.kind = "open" /\ mounted) => connected' = TRUE
          /\ (lastEv'.kind = "message" /\ lastEv'.data = "connected"
                /\ mounted) => connected' = TRUE
          /\ (lastEv'.kind = "error" /\ mounted) =>
                (connected' = FALSE /\ error' # Null)]_vars

C8_Witness ==
    /\ lastEv.kind = "message"
    /\ lastEv.data = "connected"
    /\ lastEv.pre.connected = FALSE
    /\ connected

C10_NoTerminalState ==
    /\ [](mounted => (ENABLED OnOpen(table) /\ ENABLED OnError(table)))
    /\ [][/\ (lastEv'.kind = "open" /\ mounted /\ ~connected /\ error # Null)
                => (connected' = TRUE /\ error' = Null)
          /\ (lastEv'.kind = "error" /\ mounted /\ connected)
                => (connected' = FALSE /\ error' = LostMessage)]_vars

C10_Witness ==
    /\ lastEv.kind = "open"
    /\ lastEv.pre.connected = FALSE
    /\ lastEv.pre.error = LostMessage
    /\ connected
    /\ error = Null
    /\ accepted # <<>>

\* C11: an update event whose payload does not decode to a record changes
\* neither the buffer, the connection state, the gate nor the connection
\* itself, and the next valid update is appended all the same.
C11_BadUpdateDroppedAlone ==
    [][/\ (lastEv'.kind = "update" /\ lastEv'.data # "record") =>
              UNCHANGED <<items, connected, error, paused, openSources>>
       /\ (lastEv.kind = "update" /\ lastEv.data # "record"
             /\ lastEv'.kind = "update" /\ lastEv'.data = "record"
             /\ ~paused /\ mounted) =>
              /\ items' # <<>>
              /\ items'[Len(items')] = lastEv'.rec
              /\ Len(items') = Min(Len(items) + 1, maxItems)]_vars

C11_Witness ==
    /\ lastEv.kind = "update"
    /\ lastEv.data = "malformed"
    /\ ~paused
    /\ connected
    /\ error = Null
    /\ Len(items) = maxItems

\* C12: a snapshot fetch that ends in a network failure, a non-2xx response or
\* a body that is no record array changes neither the buffer nor the
\* connection state.
C12_FailedSnapshotIgnored ==
    [][(lastEv'.kind = "snapshot"
          /\ (lastEv'.data # "array" \/ ~lastEv'.ok)) =>
          UNCHANGED <<items, connected, error>>]_vars

\* C13: clear() is possible in every state of a mounted hook, empties the
\* buffer, leaves the connection state and the gate as they are, and a valid
\* update accepted right after it is the only record of the buffer.
C13_ClearEmpties ==
    /\ [](mounted => ENABLED Clear)
    /\ [][/\ lastEv'.kind = "clear" =>
                (items' = <<>> /\ UNCHANGED <<connected, error, paused>>)
          /\ (lastEv.kind = "clear" /\ lastEv'.kind = "update"
                /\ lastEv'.data = "record" /\ ~paused /\ mounted) =>
                items' = <<lastEv'.rec>>]_vars

C13_Witness ==
    /\ lastEv.kind = "clear"
    /\ lastEv.pre.len > 1
    /\ items = <<>>
    /\ paused
    /\ error # Null
    /\ fetching # {}

\* C14: open, message and error events never change the buffer; a step loses
\* a buffered record only if it is a clear, a snapshot completion, or an
\* update that arrives with the buffer already at capacity.
C14_LifecycleKeepsBuffer ==
    [][/\ lastEv'.kind \in {"open", "message", "error"} => items' = items
       /\ ~IsPrefix(items, items') =>
             \/ lastEv'.kind \in {"clear", "snapshot"}
             \/ lastEv'.kind = "update" /\ Len(items) >= maxItems]_vars

C14_Witness ==
    /\ lastEv.kind = "open"
    /\ lastEv.pre.error = LostMessage
    /\ ~lastEv.pre.connected
    /\ Len(items) = maxItems
    /\ base # <<>>

C16_DroppedNeverAppears ==
    Range(items) \subseteq (Range(base) \cup Range(accepted))

C16_Witness ==
    /\ lastEv.kind = "toggle"
    /\ ~paused
    /\ lastEv.rec # NoRecord
    /\ lastEv.rec \notin Range(items)
    /\ items # <<>>

\* ------------------------------------------------------------ the App
\* App mounts LogsPanel, SpansPanel and MetricsPanel once and keeps them
\* mounted; each panel calls useSSE with its table and the paused prop the
\* App hands it.  Of every subscription this part keeps the buffer only.

\* The maxItems a panel's subscription runs with: the panels pass none, so the
\* hook's default (1000) applies, scaled here to the largest modelled capacity.
DefaultMaxItems == MaxCap

\* A wiring in which only LogsPanel is handed the App's paused state.
PanelPausedLogsOnly(p, ap) == ap /\ p = "Log"

\* The paused prop panel p is rendered with when the App's state is ap.
PanelPaused(p, ap) == ap

\* The Pause/Resume button of panel q: onTogglePause, setPaused(p => !p).
AppTogglePause(q) ==
    /\ appPaused' = ~appPaused
    /\ pausedBy' = q
    /\ appEv' = [kind |-> "toggle", panel |-> q, rec |-> NoRecord]
    /\ UNCHANGED <<panelItems, hookVars, metricVars, navVars, filterVars>>

\* The update listener of panel p's subscription receives record rec.
AppUpdate(p, rec) ==
    /\ panelItems' = [panelItems EXCEPT ![p] =
                        IF Gate(PanelPaused(p, appPaused)) THEN @
                        ELSE Push(@, rec, DefaultMaxItems)]
    /\ appEv' = [kind |-> "update", panel |-> p, rec |-> rec]
    /\ UNCHANGED <<appPaused, pausedBy, hookVars, metricVars, navVars, filterVars>>

\* The hook variables while only the App is observed.
HookStart ==
    /\ maxItems = DefaultMaxItems
    /\ items = <<>>
    /\ connected = FALSE
    /\ error = Null
    /\ paused = FALSE
    /\ mounted = TRUE
    /\ table = 1
    /\ openSources = {1}
    /\ fetching = {1}
    /\ base = <<>>
    /\ accepted = <<>>
    /\ lastEv = Ev("mount", 1, "", NoRecord, <<>>, NoPre)

InitApp == HookStart /\ AppStart /\ MetricsStart /\ RestStart

NextApp ==
    \/ \E q \in Panels : AppTogglePause(q)
    \/ \E p \in Panels, rec \in Records : AppUpdate(p, rec)

SpecApp == InitApp /\ [][NextApp]_vars

\* C17 (as claimed): the gate is one boolean per subscription: while the gate
\* was last engaged from another panel, an update of this panel's
\* subscription is still appended.
C17_OtherPanelsKeepAppending ==
    [][\A p \in Panels :
          (appEv'.kind = "update" /\ appEv'.panel = p
              /\ appPaused /\ pausedBy # p) =>
          (panelItems'[p] # <<>>
              /\ panelItems'[p][Len(panelItems'[p])] = appEv'.rec)]_vars

\* C17 (amended): the gate is one boolean of the App shared by the three
\* subscriptions: the pause button of any panel flips it and touches no
\* buffer, and while it is engaged an update of any panel's subscription is
\* dropped, while otherwise the update becomes the newest record of that
\* panel's buffer and of no other.
C17_SharedGate ==
    [][/\ appEv'.kind = "toggle" =>
            (appPaused' = ~appPaused /\ panelItems' = panelItems)
       /\ (appEv'.kind = "update" /\ appPaused) =>
            (panelItems' = panelItems /\ appPaused')
       /\ (appEv'.kind = "update" /\ ~appPaused) =>
            /\ panelItems'[appEv'.panel] # <<>>
            /\ panelItems'[appEv'.panel][Len(panelItems'[appEv'.panel])]
                  = appEv'.rec
            /\ \A o \in Panels \ {appEv'.panel} :
                  panelItems'[o] = panelItems[o]]_vars

C17_Witness ==
    /\ appPaused
    /\ pausedBy = "Log"
    /\ appEv.kind = "update"
    /\ appEv.panel = "Metric"
    /\ panelItems["Metric"] # <<>>
    /\ appEv.rec \notin Range(panelItems["Metric"])

MaxMetrics == 2

NoAppId == <<>>
AppIds == {<<"x">>, <<"y">>}

\* An attributes value: its form as JSON text, for a JSON string the form of
\* the text it encodes, and the app_id of the object it (finally) denotes.
Attr(form, inner, app) == [form |-> form, inner |-> inner, app |-> app]
AbsentAttr == Attr("absent", "", NoAppId)
ObjectAttr(a) == Attr("object", "", a)
EncodedAttr(a) == Attr("string", "object", a)

MetricNames ==
    {<<"system", ".", "cpu">>, <<"process", ".", "cpu">>,
     <<"telemetry", ".", "dropped">>, <<"app", ".", "rps">>,
     <<"app", ".", "rps", ":", "x">>, <<"app">>, <<"custom", ".", "n">>}
MetricAttrs == {AbsentAttr, EncodedAttr(<<"x">>)} \cup {ObjectAttr(a) : a \in AppIds}
Timestamps == {1, 2}
MetricEntries ==
    {[name |-> n, attributes |-> a, timestamp |-> t] :
        n \in MetricNames, a \in MetricAttrs, t \in Timestamps}

\* The value `parsed` holds after the decode passes of parseAppId, "throw"
\* when JSON.parse raised in either pass.
Decoded(a) ==
    IF a.form = "malformed" THEN "throw"
    ELSE IF a.form = "string"
         THEN (IF a.inner = "malformed" THEN "throw" ELSE a.inner)
         ELSE a.form

\* The outcome of the try block when an exception leaves it.
Raised == <<"!">>

\* The try block of parseAppId: JSON.parse raises on malformed text, reading
\* app_id of null raises, a number, array or string has no app_id, and a
\* missing or empty app_id gives null.
TryBlock(a) ==
    IF Decoded(a) \in {"throw", "null"} THEN Raised
    ELSE IF Decoded(a) = "object" THEN a.app
    ELSE NoAppId

\* A parseAppId without the second decode pass.
ParseAppIdSinglePass(a) ==
    IF a.form \in {"absent", "empty", "braces"} THEN NoAppId
    ELSE IF a.form = "object" THEN a.app
    ELSE NoAppId

ParseAppId(a) ==
    IF a.form \in {"absent", "empty", "braces"} THEN NoAppId
    ELSE IF TryBlock(a) = Raised THEN NoAppId
    ELSE TryBlock(a)

metricKey(m) ==
    IF ParseAppId(m.attributes) # NoAppId
        THEN m.name \o <<":">> \o ParseAppId(m.attributes)
        ELSE m.name

\* Map.set on a Map kept as its entries in insertion order.
MapSet(map, key, value) ==
    IF \E i \in 1..Len(map) : map[i].key = key
        THEN [i \in 1..Len(map) |->
                IF map[i].key = key THEN [key |-> key, value |-> value]
                ELSE map[i]]
        ELSE Append(map, [key |-> key, value |-> value])

RECURSIVE latestMetrics(_)
latestMetrics(its) ==
    IF its = <<>> THEN <<>>
    ELSE MapSet(latestMetrics(SubSeq(its, 1, Len(its) - 1)),
                metricKey(its[Len(its)]), its[Len(its)])

MapValues(map) == [i \in 1..Len(map) |-> map[i].value]

StartsWith(text, prefix) ==
    Len(text) >= Len(prefix) /\ SubSeq(text, 1, Len(prefix)) = prefix

IsSystem(m) ==
    \/ StartsWith(m.name, <<"system", ".">>)
    \/ StartsWith(m.name, <<"process", ".">>)
    \/ StartsWith(m.name, <<"telemetry", ".">>)

\* buildAppStats keeps the metrics whose name starts with "app.".
IsAppMetric(m) == StartsWith(m.name, <<"app", ".">>)

\* An else branch that takes every metric that is not a system metric.
InOtherNoAppCheck(m) == ~IsSystem(m)

InOther(m) == ~IsSystem(m) /\ ~StartsWith(m.name, <<"app", ".">>)

\* What one render of MetricsPanel computes from the buffer.
Render(its) ==
    LET ms == MapValues(latestMetrics(its))
    IN  [metrics |-> ms,
         system |-> SelectSeq(ms, IsSystem),
         other |-> SelectSeq(ms, InOther),
         app |-> SelectSeq(ms, IsAppMetric)]

\* The application id buildAppStats files a metric without one under.
UnknownId == <<"unknown">>

PeakRps == <<"app", ".", "requests", ".", "peak_rps">>
P95Latency == <<"app", ".", "requests", ".", "p95_latency_ms">>
ErrorPercent == <<"app", ".", "requests", ".", "error_percent">>
RateLimited == <<"app", ".", "requests", ".", "rate_limited">>

\* An AppStats field that is not set.
NoMetric == [name |-> <<>>, attributes |-> AbsentAttr, timestamp |-> 0]

NewStats(appId, ext) ==
    [appId |-> appId, isExtension |-> appId \in ext, rps |-> NoMetric,
     p95Latency |-> NoMetric, errorPercent |-> NoMetric, rateLimited |-> NoMetric]

\* A name test that takes every name under app.requests. for the rps field.
SetFieldByPrefix(stats, m) ==
    IF StartsWith(m.name, <<"app", ".", "requests", ".">>)
        THEN [stats EXCEPT !.rps = m]
        ELSE stats

\* The if / else-if chain on the exact name.
SetField(stats, m) ==
    IF m.name = PeakRps THEN [stats EXCEPT !.rps = m]
    ELSE IF m.name = P95Latency THEN [stats EXCEPT !.p95Latency = m]
    ELSE IF m.name = ErrorPercent THEN [stats EXCEPT !.errorPercent = m]
    ELSE IF m.name = RateLimited THEN [stats EXCEPT !.rateLimited = m]
    ELSE stats

\* The statsMap as its values in insertion order.
RECURSIVE buildAppStats(_, _)
buildAppStats(metrics, ext) ==
    IF metrics = <<>> THEN <<>>
    ELSE LET prev == buildAppStats(SubSeq(metrics, 1, Len(metrics) - 1), ext)
             m == metrics[Len(metrics)]
             appId == IF ParseAppId(m.attributes) # NoAppId
                          THEN ParseAppId(m.attributes) ELSE UnknownId
             has == \E i \in 1..Len(prev) : prev[i].appId = appId
             map == IF has THEN prev ELSE Append(prev, NewStats(appId, ext))
         IN  IF ~StartsWith(m.name, <<"app", ".">>) THEN prev
             ELSE [i \in 1..Len(map) |->
                      IF map[i].appId = appId THEN SetField(map[i], m)
                      ELSE map[i]]

\* localeCompare on the application ids of the model: their collation order.
Collation == << <<"unknown">>, <<"x">>, <<"y">> >>
Rank(id) == CHOOSE i \in 1..Len(Collation) : Collation[i] = id
LocaleCompare(a, b) == Rank(a) - Rank(b)

\* A comparator that orders the ids descending.
CompareDescending(a, b) == Rank(b.appId) - Rank(a.appId)

\* The comparator handed to sort: (a, b) => a.appId.localeCompare(b.appId).
CompareAppId(a, b) == LocaleCompare(a.appId, b.appId)

\* Array.prototype.sort (stable) with CompareAppId, by insertion.
RECURSIVE SortApps(_)
SortApps(stats) ==
    IF stats = <<>> THEN <<>>
    ELSE LET sorted == SortApps(SubSeq(stats, 1, Len(stats) - 1))
             a == stats[Len(stats)]
             k == Cardinality({i \in 1..Len(sorted) : CompareAppId(sorted[i], a) <= 0})
         IN  SubSeq(sorted, 1, k) \o <<a>> \o SubSeq(sorted, k + 1, Len(sorted))

IsExtension(a) == a.isExtension
IsApplication(a) == ~a.isExtension

\* The per-app part of one render.
RenderApps(metrics, ext) ==
    LET stats == buildAppStats(metrics, ext)
        all == SortApps(stats)
    IN  [appStats |-> stats,
         allApps |-> all,
         extensions |-> SelectSeq(all, IsExtension),
         applications |-> SelectSeq(all, IsApplication)]

\* A metric record arrives on a Metric subscription of capacity cap and the
\* panel renders.
Arrives(m, cap) ==
    /\ mItems' = Push(mItems, m, cap)
    /\ derived' = Render(mItems')
    /\ apps' = RenderApps(derived'.metrics, extensionIds)
    /\ UNCHANGED <<extensionIds, hookVars, appVars, navVars, filterVars>>

\* A metric record arrives on the Metric subscription and the panel renders.
MetricArrives(m) == Arrives(m, MaxMetrics)

\* The Clear button of MetricsPanel, then the render.
MetricsClear ==
    /\ mItems # <<>>
    /\ mItems' = ClearItems(mItems)
    /\ derived' = Render(mItems')
    /\ apps' = RenderApps(derived'.metrics, extensionIds)
    /\ UNCHANGED <<extensionIds, hookVars, appVars, navVars, filterVars>>

\* The /telemetry fetch of the mount effect resolves with extension ids ids,
\* then the render.
ExtensionsLoaded(ids) ==
    /\ extensionIds = {}
    /\ ids # {}
    /\ extensionIds' = ids
    /\ apps' = RenderApps(derived.metrics, extensionIds')
    /\ UNCHANGED <<mItems, derived, hookVars, appVars, navVars, filterVars>>

InitMetrics == HookStart /\ AppStart /\ MetricsStart /\ RestStart

NextMetrics ==
    \/ \E m \in MetricEntries : MetricArrives(m)
    \/ MetricsClear

SpecMetrics == InitMetrics /\ [][NextMetrics]_vars

\* MetricIdentity: the name together with the parsed application id.
MetricIdentity(m) == <<m.name, ParseAppId(m.attributes)>>

\* C19: the deduplicated metrics hold exactly one entry per MetricIdentity in
\* the buffer, and it is the record of that identity that arrived last,
\* whatever the timestamps are.
C19_OneEntryPerIdentity ==
    LET ids == {MetricIdentity(mItems[i]) : i \in 1..Len(mItems)}
        ms == derived.metrics
    IN  /\ Len(ms) = Cardinality(ids)
        /\ \A id \in ids :
              LET last == CHOOSE i \in 1..Len(mItems) :
                              /\ MetricIdentity(mItems[i]) = id
                              /\ \A j \in (i + 1)..Len(mItems) :
                                    MetricIdentity(mItems[j]) # id
              IN  /\ Cardinality({j \in 1..Len(ms) : MetricIdentity(ms[j]) = id}) = 1
                  /\ \E j \in 1..Len(ms) : ms[j] = mItems[last]

\* C27: metricKey is injective on MetricIdentity: two buffered records get
\* the same deduplication key only if they have the same name and the same
\* parsed application id; name N with id A never shares a key with the bare
\* name N:A.
C27_KeyInjective ==
    \A i, j \in 1..Len(mItems) :
        metricKey(mItems[i]) = metricKey(mItems[j]) =>
            /\ mItems[i].name = mItems[j].name
            /\ ParseAppId(mItems[i].attributes) = ParseAppId(mItems[j].attributes)

\* C20: every deduplicated metric is in exactly one of system, application,
\* other: system iff its name starts with "system.", "process." or
\* "telemetry.", application iff it starts with "app.", other otherwise.
C20_CategoryPartition ==
    \A j \in 1..Len(derived.metrics) :
        LET m == derived.metrics[j]
            first == IF Len(m.name) >= 2 /\ m.name[2] = "." THEN m.name[1] ELSE ""
            inSystem == m \in Range(derived.system)
            inApp == m \in Range(derived.app)
            inOther == m \in Range(derived.other)
        IN  /\ inSystem <=> first \in {"system", "process", "telemetry"}
            /\ inApp <=> first = "app"
            /\ inOther <=> ~(first \in {"system", "process", "telemetry", "app"})
            /\ Cardinality({c \in {"s", "a", "o"} :
                    \/ c = "s" /\ inSystem
                    \/ c = "a" /\ inApp
                    \/ c = "o" /\ inOther}) = 1

C20_Witness ==
    /\ Len(derived.metrics) = 2
    /\ \E m \in Range(derived.other) : m.name = <<"app">>
    /\ \E m \in Range(derived.app) : m.attributes = AbsentAttr
    /\ derived.system = <<>>

\* ------------------------------------------------- per-app statistics
StatIds == {<<"x">>, <<"y">>, UnknownId}
StatNames ==
    {PeakRps, P95Latency, ErrorPercent, RateLimited, <<"app", ".", "rps">>,
     <<"system", ".", "cpu">>}
StatAttrs == {AbsentAttr} \cup {ObjectAttr(a) : a \in StatIds}
StatEntries ==
    {[name |-> n, attributes |-> a, timestamp |-> 1] :
        n \in StatNames, a \in StatAttrs}
ExtensionSets == SUBSET StatIds

InitStats == HookStart /\ AppStart /\ MetricsStart /\ RestStart

NextStats ==
    \/ \E m \in StatEntries : MetricArrives(m)
    \/ MetricsClear
    \/ \E ids \in ExtensionSets : ExtensionsLoaded(ids)

SpecStats == InitStats /\ [][NextStats]_vars

\* The application id a metric is filed under.
Bucket(m) ==
    IF ParseAppId(m.attributes) = NoAppId THEN UnknownId
    ELSE ParseAppId(m.attributes)

AppPrefixed(ms) ==
    {m \in Range(ms) : Len(m.name) >= 2 /\ m.name[1] = "app" /\ m.name[2] = "."}

\* C21: there is one AppStat per application id among the app.-prefixed
\* deduplicated metrics (no id counts as "unknown"), and each of its four
\* fields is set iff a deduplicated metric of that id bears exactly the
\* field's name; any other app.* name sets no field.
C21_AppStatsByExactName ==
    LET ms == AppPrefixed(derived.metrics)
        stats == apps.appStats
        Has(id, n) == \E m \in ms : Bucket(m) = id /\ m.name = n
    IN  /\ {stats[i].appId : i \in 1..Len(stats)} = {Bucket(m) : m \in ms}
        /\ Len(stats) = Cardinality({Bucket(m) : m \in ms})
        /\ \A i \in 1..Len(stats) :
              /\ stats[i].rps # NoMetric <=> Has(stats[i].appId, PeakRps)
              /\ stats[i].p95Latency # NoMetric <=> Has(stats[i].appId, P95Latency)
              /\ stats[i].errorPercent # NoMetric <=> Has(stats[i].appId, ErrorPercent)
              /\ stats[i].rateLimited # NoMetric <=> Has(stats[i].appId, RateLimited)

C21_Witness ==
    \E i \in 1..Len(apps.appStats) :
        /\ apps.appStats[i].appId = <<"x">>
        /\ apps.appStats[i].rps # NoMetric
        /\ apps.appStats[i].errorPercent # NoMetric
        /\ apps.appStats[i].p95Latency = NoMetric
        /\ apps.appStats[i].rateLimited = NoMetric

\* C22: the extension group and the application group are disjoint and
\* together hold every AppStat exactly once; an AppStat is an extension iff
\* its id is in the supplied extension-id set; each group is sorted by
\* application id, ascending.
C22_GroupsSplitAndSorted ==
    LET ext == apps.extensions
        app == apps.applications
        Ascending(g) ==
            \A i, j \in 1..Len(g) : i < j => Rank(g[i].appId) < Rank(g[j].appId)
    IN  /\ Range(ext) \cap Range(app) = {}
        /\ Range(ext) \cup Range(app) = Range(apps.appStats)
        /\ Len(ext) + Len(app) = Len(apps.appStats)
        /\ \A a \in Range(apps.appStats) :
              a \in Range(ext) <=> a.appId \in extensionIds
        /\ Ascending(ext)
        /\ Ascending(app)

C22_Witness ==
    /\ Len(apps.appStats) = 2
    /\ Rank(apps.appStats[1].appId) > Rank(apps.appStats[2].appId)
    /\ Len(apps.extensions) = 2
    /\ extensionIds # StatIds

\* ---------------------------------------------------------- parseAppId
\* Every form an attributes value takes.
PlainForms == {"absent", "empty", "braces", "malformed", "null", "number", "array"}
InnerForms == {"malformed", "null", "number", "array", "string"}
AllAttrs ==
    {Attr(f, "", NoAppId) : f \in PlainForms}
        \cup {ObjectAttr(a) : a \in AppIds \cup {NoAppId}}
        \cup {Attr("string", f, NoAppId) : f \in InnerForms}
        \cup {EncodedAttr(a) : a \in AppIds \cup {NoAppId}}
ParseEntries ==
    {[name |-> n, attributes |-> a, timestamp |-> 1] :
        n \in {PeakRps, ErrorPercent}, a \in AllAttrs}

InitParse == HookStart /\ AppStart /\ MetricsStart /\ RestStart

NextParse ==
    \/ \E m \in ParseEntries : MetricArrives(m)
    \/ MetricsClear

SpecParse == InitParse /\ [][NextParse]_vars

\* The application id the attributes denote: the app_id of a JSON object, or
\* of the JSON object a JSON string encodes; none for every other form.
DenotedAppId(a) ==
    IF a.form = "object" \/ (a.form = "string" /\ a.inner = "object")
        THEN a.app
        ELSE NoAppId

\* C23: parseAppId is total: for every form of attributes the render goes
\* through and files the metric under the app_id the attributes denote (for a
\* double-encoded object too) or, for every form that denotes none or fails
\* to parse at either pass, under no application id ("unknown"); it never
\* raises.
C23_ParseAppIdTotal ==
    /\ \A i \in 1..Len(mItems) :
          LET id == DenotedAppId(mItems[i].attributes)
          IN  \E j \in 1..Len(apps.appStats) :
                  apps.appStats[j].appId = (IF id = NoAppId THEN UnknownId ELSE id)
    /\ \A j \in 1..Len(apps.appStats) :
          /\ apps.appStats[j].appId # Raised
          /\ \E i \in 1..Len(mItems) :
                LET id == DenotedAppId(mItems[i].attributes)
                IN  apps.appStats[j].appId = (IF id = NoAppId THEN UnknownId ELSE id)

C23_Witness ==
    /\ Len(mItems) = 2
    /\ mItems[1].attributes = EncodedAttr(<<"y">>)
    /\ mItems[2].attributes = Attr("string", "null", NoAppId)
    /\ Len(apps.appStats) = 2
    /\ apps.appStats[1].appId = <<"y">>
    /\ apps.appStats[2].appId = UnknownId

\* ------------------------------------------------- the "unknown" bucket
\* Largest number of records the metric buffer holds where re-arrival of an
\* identity after another one matters (maxItems scaled).
MaxBucketMetrics == 3

BucketEntries ==
    {[name |-> n, attributes |-> a, timestamp |-> 1] :
        n \in {PeakRps, ErrorPercent},
        a \in {AbsentAttr, ObjectAttr(UnknownId), ObjectAttr(<<"x">>)}}

\* A metric record arrives on the Metric subscription and the panel renders.
BucketArrives(m) == Arrives(m, MaxBucketMetrics)

InitBuckets == HookStart /\ AppStart /\ MetricsStart /\ RestStart

NextBuckets ==
    \/ \E m \in BucketEntries : BucketArrives(m)
    \/ MetricsClear

SpecBuckets == InitBuckets /\ [][NextBuckets]_vars

\* The buffered record of name n filed under id that arrived last.
LastArrived(id, n) ==
    mItems[CHOOSE i \in 1..Len(mItems) :
              /\ mItems[i].name = n
              /\ Bucket(mItems[i]) = id
              /\ \A j \in (i + 1)..Len(mItems) :
                    ~(mItems[j].name = n /\ Bucket(mItems[j]) = id)]

\* C28: every set sub-metric field of every AppStat holds the record that
\* arrived last in the buffer among the buffered records of that recognized
\* name filed under the AppStat's id, the "unknown" bucket included, which
\* takes records without an id and records whose app_id is "unknown".
C28_FieldHoldsLastArrived ==
    \A i \in 1..Len(apps.appStats) :
        LET st == apps.appStats[i]
        IN  /\ st.rps # NoMetric => st.rps = LastArrived(st.appId, PeakRps)
            /\ st.p95Latency # NoMetric =>
                  st.p95Latency = LastArrived(st.appId, P95Latency)
            /\ st.errorPercent # NoMetric =>
                  st.errorPercent = LastArrived(st.appId, ErrorPercent)
            /\ st.rateLimited # NoMetric =>
                  st.rateLimited = LastArrived(st.appId, RateLimited)

\* ------------------------------------------- LogsPanel and SpansPanel
\* Text is a sequence of characters here, each a letter in one of its cases.
\* Largest number of records the log buffer and the span buffer hold
\* (maxItems scaled).
MaxLogs == 2

ToLowerChar(c) == IF c = "A" THEN "a" ELSE IF c = "B" THEN "b" ELSE c

\* String.prototype.toLowerCase.
ToLowerCase(text) == [i \in 1..Len(text) |-> ToLowerChar(text[i])]

\* String.prototype.includes.
Includes(text, part) ==
    \E k \in 0..(Len(text) - Len(part)) :
        SubSeq(text, k + 1, k + Len(part)) = part

Messages == {<<"A", "b">>, <<"b">>}
Targets == {<<"a">>, <<"B", "a">>}
Searches == {<<>>, <<"a">>, <<"A", "B">>, <<"b", "A">>}
LogEntries ==
    {[level |-> l, target |-> t, message |-> m] :
        l \in {"INFO", "ERROR"}, t \in Targets, m \in Messages}

\* A filter callback that searches the message only.
LogPassesMessageOnly(log, levels, search) ==
    /\ log.level \in levels
    /\ ~(search # <<>> /\ ~Includes(ToLowerCase(log.message), ToLowerCase(search)))

\* The callback of items.filter in LogsPanel.
LogPasses(log, levels, search) ==
    /\ log.level \in levels
    /\ ~(/\ search # <<>>
         /\ ~Includes(ToLowerCase(log.message), ToLowerCase(search))
         /\ ~Includes(ToLowerCase(log.target), ToLowerCase(search)))

\* Array.prototype.filter with LogPasses.
LogFilter(its, levels, search) ==
    LET Passes(log) == LogPasses(log, levels, search)
    IN  SelectSeq(its, Passes)

\* A log record arrives on the Log subscription and the panel renders.
LogArrives(log) ==
    /\ logItems' = Push(logItems, log, MaxLogs)
    /\ logFiltered' = LogFilter(logItems', enabledLevels, logSearch)
    /\ UNCHANGED <<enabledLevels, logSearch, spanItems, spanSearch, spanFiltered,
                   hookVars, appVars, metricVars, navVars>>

\* A level button: toggleLevel, then the render.
ToggleLevel(level) ==
    /\ enabledLevels' = IF level \in enabledLevels
                            THEN enabledLevels \ {level}
                            ELSE enabledLevels \cup {level}
    /\ logFiltered' = LogFilter(logItems, enabledLevels', logSearch)
    /\ UNCHANGED <<logItems, logSearch, spanItems, spanSearch, spanFiltered,
                   hookVars, appVars, metricVars, navVars>>

\* The search input of LogsPanel changes to text, then the render.
SetLogSearch(text) ==
    /\ logSearch' = text
    /\ logFiltered' = LogFilter(logItems, enabledLevels, logSearch')
    /\ UNCHANGED <<logItems, enabledLevels, spanItems, spanSearch, spanFiltered,
                   hookVars, appVars, metricVars, navVars>>

InitLogs == HookStart /\ AppStart /\ MetricsStart /\ RestStart

NextLogs ==
    \/ \E log \in LogEntries : LogArrives(log)
    \/ \E i \in 1..Len(LOG_LEVELS) : ToggleLevel(LOG_LEVELS[i])
    \/ \E text \in Searches : SetLogSearch(text)

SpecLogs == InitLogs /\ [][NextLogs]_vars

\* part occurs in text when the case of letters is disregarded.
SameLetter(c, d) == c = d \/ {c, d} = {"a", "A"} \/ {c, d} = {"b", "B"}
ContainsIgnoringCase(text, part) ==
    \E k \in 0..(Len(text) - Len(part)) :
        \A i \in 1..Len(part) : SameLetter(text[k + i], part[i])

\* The buffer positions of the log records the filter is to return.
LogWanted ==
    {i \in 1..Len(logItems) :
        /\ logItems[i].level \in enabledLevels
        /\ logSearch # <<>> =>
              \/ ContainsIgnoringCase(logItems[i].message, logSearch)
              \/ ContainsIgnoringCase(logItems[i].target, logSearch)}

\* C24: the log filter returns, in buffer order and without changing the
\* buffer, exactly the buffered records whose level is enabled and, when the
\* search is non-empty, whose message or target contains it
\* case-insensitively; with all five levels enabled and an empty search it
\* returns the whole buffer.
C24_LogFilter ==
    [][/\ (enabledLevels' # enabledLevels \/ logSearch' # logSearch)
              => logItems' = logItems
       /\ (\E pos \in [1..Len(logFiltered) -> 1..Len(logItems)] :
              /\ {pos[j] : j \in 1..Len(logFiltered)} = LogWanted
              /\ \A j, k \in 1..Len(logFiltered) : j < k => pos[j] < pos[k]
              /\ \A j \in 1..Len(logFiltered) : logFiltered[j] = logItems[pos[j]])'
       /\ ((Cardinality(enabledLevels) = 5 /\ logSearch = <<>>)
              => logFiltered = logItems)']_vars

C24_Witness ==
    /\ Len(logItems) = 2
    /\ Len(logFiltered) = 1
    /\ logSearch = <<"A", "B">>
    /\ Cardinality(enabledLevels) = 4
    /\ logItems[1].level \in enabledLevels
    /\ logItems[2].level \in enabledLevels
    /\ logFiltered[1].target = <<"a">>

SpanEntries ==
    {[name |-> n, target |-> t, level |-> l] :
        n \in Messages, t \in Targets, l \in {"INFO", "ERROR"}}

\* A filter callback that also hides the spans of level INFO.
SpanPassesAboveInfo(span, search) ==
    /\ span.level # "INFO"
    /\ ~(/\ search # <<>>
         /\ ~Includes(ToLowerCase(span.name), ToLowerCase(search))
         /\ ~Includes(ToLowerCase(span.target), ToLowerCase(search)))

\* The callback of items.filter in SpansPanel.
SpanPasses(span, search) ==
    ~(/\ search # <<>>
      /\ ~Includes(ToLowerCase(span.name), ToLowerCase(search))
      /\ ~Includes(ToLowerCase(span.target), ToLowerCase(search)))

SpanFilter(its, search) ==
    LET Passes(span) == SpanPasses(span, search)
    IN  SelectSeq(its, Passes)

\* A span record arrives on the Span subscription and the panel renders.
SpanArrives(span) ==
    /\ spanItems' = Push(spanItems, span, MaxLogs)
    /\ spanFiltered' = SpanFilter(spanItems', spanSearch)
    /\ UNCHANGED <<spanSearch, logItems, enabledLevels, logSearch, logFiltered,
                   hookVars, appVars, metricVars, navVars>>

\* The search input of SpansPanel changes to text, then the render.
SetSpanSearch(text) ==
    /\ spanSearch' = text
    /\ spanFiltered' = SpanFilter(spanItems, spanSearch')
    /\ UNCHANGED <<spanItems, logItems, enabledLevels, logSearch, logFiltered,
                   hookVars, appVars, metricVars, navVars>>

InitSpans == HookStart /\ AppStart /\ MetricsStart /\ RestStart

NextSpans ==
    \/ \E span \in SpanEntries : SpanArrives(span)
    \/ \E text \in Searches : SetSpanSearch(text)

SpecSpans == InitSpans /\ [][NextSpans]_vars

\* The buffer positions of the span records the filter is to return.
SpanWanted ==
    {i \in 1..Len(spanItems) :
        spanSearch # <<>> =>
            \/ ContainsIgnoringCase(spanItems[i].name, spanSearch)
            \/ ContainsIgnoringCase(spanItems[i].target, spanSearch)}

\* C25: the span filter returns, in buffer order, exactly the buffered spans
\* whose name or target contains the search string case-insensitively, all
\* of them when the search is empty; the level of a span plays no part.
C25_SpanFilter ==
    /\ \E pos \in [1..Len(spanFiltered) -> 1..Len(spanItems)] :
          /\ {pos[j] : j \in 1..Len(spanFiltered)} = SpanWanted
          /\ \A j, k \in 1..Len(spanFiltered) : j < k => pos[j] < pos[k]
          /\ \A j \in 1..Len(spanFiltered) : spanFiltered[j] = spanItems[pos[j]]
    /\ spanSearch = <<>> => spanFiltered = spanItems
    /\ \A i, j \in 1..Len(spanItems) :
          (spanItems[i].name = spanItems[j].name
              /\ spanItems[i].target = spanItems[j].target) =>
          (spanItems[i] \in Range(spanFiltered) <=> spanItems[j] \in Range(spanFiltered))

C25_Witness ==
    /\ Len(spanItems) = 2
    /\ spanSearch = <<"b", "A">>
    /\ spanItems[1].level = "INFO"
    /\ spanItems[2].level = "ERROR"
    /\ spanItems[1].target = <<"B", "a">>
    /\ spanItems[2].target = <<"a">>
    /\ spanItems[2].name = <<"b">>
    /\ spanFiltered = <<spanItems[1]>>

\* ------------------------------------------------- the hook, continued

\* C26: live updates are taken one at a time in delivery order: when a
\* non-empty snapshot S was applied and live updates L1..Lk were accepted
\* after it, the buffer is the last maxItems elements of S followed by
\* L1..Lk, so every live record sits after every snapshot record and the
\* live records keep their delivery order.
C26_LiveAfterSnapshot ==
    (base # <<>> /\ accepted # <<>>) =>
        /\ items = LastN(base \o accepted, maxItems)
        /\ LET live == Min(Len(accepted), Len(items))
           IN  /\ SubSeq(items, Len(items) - live + 1, Len(items))
                    = LastN(accepted, live)
               /\ IsPrefix(SubSeq(items, 1, Len(items) - live),
                           LastN(base, Len(items) - live))

C26_Witness ==
    /\ Len(base) = 2
    /\ Len(accepted) = 1
    /\ maxItems = 2
    /\ lastEv.kind = "update"
    /\ base[2] # accepted[1]
    /\ items = <<base[2], accepted[1]>>

\* C29: the gate gates buffer writes only: with the gate engaged an open
\* event, a confirmation message and a transport error change the connection
\* state as they do with the gate disengaged, and a toggle of the gate
\* changes neither the connection state nor the buffer.
C29_GateSparesConnection ==
    [][/\ (lastEv'.kind = "open" /\ paused /\ mounted) =>
              (connected' = TRUE /\ error' = Null)
       /\ (lastEv'.kind = "message" /\ lastEv'.data = "connected"
              /\ paused /\ mounted) =>
              (connected' = TRUE /\ error' = error)
       /\ (lastEv'.kind = "error" /\ paused /\ mounted) =>
              (connected' = FALSE /\ error' = LostMessage)
       /\ lastEv'.kind = "toggle" =>
              (connected' = connected /\ error' = error /\ items' = items)]_vars

C29_Witness ==
    /\ paused
    /\ lastEv.kind = "open"
    /\ lastEv.pre.error = LostMessage
    /\ connected
    /\ error = Null
    /\ items # <<>>
    /\ mounted

\* ------------------------------------------------------- navigation
VALID_NAV == {"logs", "spans", "metrics", "status"}
ConnectorNav == "connector"
ConnectorIds == {"c1"}
\* The live records the panels receive while navigation is observed.
NavRecords == {1}

NavOf(p) == IF p = "Log" THEN "logs" ELSE IF p = "Span" THEN "spans" ELSE "metrics"

\* display: flex (not none) of panel p's container.
PanelShown(p, sel, conn) == sel = NavOf(p) /\ conn = NoConnector

\* An App that renders a panel only while it is the one shown.
PanelRenderedWhenShown(p, sel, conn) == PanelShown(p, sel, conn)

\* Whether the App's render contains panel p: the three panel containers are
\* rendered unconditionally, selected only sets their display style.
PanelRendered(p, sel, conn) == TRUE

\* The render after a navigation handler: a panel that leaves the tree is
\* unmounted (its subscription released, its state lost), one that enters it
\* mounts afresh; a panel that stays keeps its subscription and state.
RenderPanels(sel, conn) ==
    /\ panelLive' = [p \in Panels |-> PanelRendered(p, sel, conn)]
    /\ panelItems' = [p \in Panels |->
                        IF panelLive[p] /\ panelLive'[p] THEN panelItems[p]
                        ELSE <<>>]
    /\ panelConnected' = [p \in Panels |->
                            IF panelLive[p] /\ panelLive'[p]
                                THEN panelConnected[p] ELSE FALSE]

NavEv == [kind |-> "nav", panel |-> NoPanel, rec |-> NoRecord]

\* A nav item of the sidebar: onSelect(id) (handleSelect, pushState) and
\* onSelectConnector('').
NavClick(id) ==
    /\ selected' = id
    /\ selectedConnector' = NoConnector
    /\ RenderPanels(selected', selectedConnector')
    /\ appEv' = NavEv
    /\ UNCHANGED <<connectors, appPaused, pausedBy, hookVars, metricVars, filterVars>>

\* Back / forward: onPopState with a location that names nav (getNavFromPath
\* gives 'logs' for any other path).
PopState(nav) ==
    /\ selected' = nav
    /\ selectedConnector' = NoConnector
    /\ RenderPanels(selected', selectedConnector')
    /\ appEv' = NavEv
    /\ UNCHANGED <<connectors, appPaused, pausedBy, hookVars, metricVars, filterVars>>

\* A connector item of the sidebar: handleSelectConnector(id).
SelectConnector(id) ==
    /\ \E i \in 1..Len(connectors) : connectors[i].id = id
    /\ selectedConnector' = id
    /\ selected' = ConnectorNav
    /\ RenderPanels(selected', selectedConnector')
    /\ appEv' = NavEv
    /\ UNCHANGED <<connectors, appPaused, pausedBy, hookVars, metricVars, filterVars>>

\* AddConnectorModal's Add: handleAddConnector with a fresh id.
AddConnector(id) ==
    /\ \A i \in 1..Len(connectors) : connectors[i].id # id
    /\ connectors' = Append(connectors, [id |-> id, enabled |-> TRUE])
    /\ selectedConnector' = id
    /\ selected' = ConnectorNav
    /\ RenderPanels(selected', selectedConnector')
    /\ appEv' = NavEv
    /\ UNCHANGED <<appPaused, pausedBy, hookVars, metricVars, filterVars>>

\* ConnectorDetail is rendered for the active connector only.
ActiveConnector(id) ==
    /\ selectedConnector = id
    /\ \E i \in 1..Len(connectors) : connectors[i].id = id

\* ConnectorDetail's toggle: handleToggleConnector.
ToggleConnector(id) ==
    /\ ActiveConnector(id)
    /\ connectors' = [i \in 1..Len(connectors) |->
                        IF connectors[i].id = id
                            THEN [connectors[i] EXCEPT !.enabled = ~@]
                            ELSE connectors[i]]
    /\ RenderPanels(selected, selectedConnector)
    /\ appEv' = NavEv
    /\ UNCHANGED <<selected, selectedConnector, appPaused, pausedBy, hookVars,
                   metricVars, filterVars>>

ConnectorKept(c) == c.id # selectedConnector

\* ConnectorDetail's remove: handleRemoveConnector, which ends in
\* handleSelect('logs').
RemoveConnector(id) ==
    /\ ActiveConnector(id)
    /\ connectors' = SelectSeq(connectors, ConnectorKept)
    /\ selectedConnector' = NoConnector
    /\ selected' = "logs"
    /\ RenderPanels(selected', selectedConnector')
    /\ appEv' = NavEv
    /\ UNCHANGED <<appPaused, pausedBy, hookVars, metricVars, filterVars>>

\* onopen (up = TRUE) or onerror (up = FALSE) of panel p's subscription.
PanelConnection(p, up) ==
    /\ panelLive[p]
    /\ panelConnected' = [panelConnected EXCEPT ![p] = up]
    /\ appEv' = [kind |-> "connection", panel |-> NoPanel, rec |-> NoRecord]
    /\ UNCHANGED <<selected, selectedConnector, connectors, panelLive, panelItems,
                   appPaused, pausedBy, hookVars, metricVars, filterVars>>

\* The App mounts at a location that names nav.
InitNav ==
    /\ HookStart
    /\ AppStart
    /\ MetricsStart
    /\ FiltersStart
    /\ \E nav \in VALID_NAV : NavStart(nav)

NextNav ==
    \/ \E id \in VALID_NAV : NavClick(id)
    \/ \E nav \in VALID_NAV : PopState(nav)
    \/ \E id \in ConnectorIds : SelectConnector(id)
    \/ \E id \in ConnectorIds : AddConnector(id)
    \/ \E id \in ConnectorIds : ToggleConnector(id)
    \/ \E id \in ConnectorIds : RemoveConnector(id)
    \/ \E p \in Panels, up \in BOOLEAN : PanelConnection(p, up)
    \/ \E p \in Panels, rec \in NavRecords : AppUpdate(p, rec)
    \/ AppTogglePause("Log")

SpecNav == InitNav /\ [][NextNav]_vars

\* C30: navigation never releases or resets a subscription: the Log, Span and
\* Metric panels stay mounted with their subscriptions live, whatever is
\* shown, and a nav selection, connector selection, connector add, toggle or
\* remove, or back / forward changes no subscription's buffer, connection
\* state or gate.
C30_NavigationKeepsSubscriptions ==
    /\ [](\A p \in Panels : panelLive[p])
    /\ [][appEv'.kind = "nav" =>
             /\ panelItems' = panelItems
             /\ panelConnected' = panelConnected
             /\ appPaused' = appPaused]_vars

C30_Witness ==
    /\ appEv.kind = "nav"
    /\ selected = ConnectorNav
    /\ selectedConnector # NoConnector
    /\ \A p \in Panels :
          /\ ~PanelShown(p, selected, selectedConnector)
          /\ panelLive[p]
          /\ panelItems[p] # <<>>
          /\ panelConnected[p]
    /\ appPaused

=============================================================================
